---- MODULE Spec2Model ----
(***************************************************************************)
(* Model of the ip_restriction dynamic module                              *)
(* (src/dynamic/rust/ip_restriction/src/lib.rs).                           *)
(*                                                                         *)
(* Strings are sequences of one-character strings, so that the byte-count  *)
(* slice of on_request_headers and the textual address grammar of          *)
(* Ipv4Addr::from_str / Ipv6Addr::from_str are computed, not assumed.      *)
(***************************************************************************)
EXTENDS Integers, Sequences, FiniteSets

VARIABLES
    payload,              \* the text last handed to FilterConfig::new
    config,               \* the Option<FilterConfig> it returned
    diag,                 \* the diagnostic it wrote to stderr
    filter,               \* the Filter created from config (its Arc clone)
    request,              \* the source attributes of the last request
    status,               \* what on_request_headers returned for it
    calls,                \* the calls it made on the EnvoyHttpFilter, in order
    downstream_addr_str,  \* the string it compared against the sets
    consulted,            \* the set operations it performed, in order
    decided               \* number of requests this filter has decided

vars == <<payload, config, diag, filter, request, status, calls,
          downstream_addr_str, consulted, decided>>

-----------------------------------------------------------------------------
(* Bounds *)

\* Largest number of entries of one JSON address array.
MaxEntries == 2
\* Largest number of requests one filter decides.
MaxRequests == 2

-----------------------------------------------------------------------------
(* Strings *)

\* "127.0.0.1"
Ip127_0_0_1 == <<"1","2","7",".","0",".","0",".","1">>
\* "::1"
IpLoopback6 == <<":",":","1">>
\* "192.168.1.1"
Ip192_168_1_1 == <<"1","9","2",".","1","6","8",".","1",".","1">>
\* "invalid_ip"
InvalidIp == <<"i","n","v","a","l","i","d","_","i","p">>
\* "203.0.113.5"
Ip203_0_113_5 == <<"2","0","3",".","0",".","1","1","3",".","5">>

DigitChars == <<"0","1","2","3","4","5","6","7","8","9">>
Digits == {DigitChars[i] : i \in 1..10}
HexDigits == Digits \cup {"a","b","c","d","e","f","A","B","C","D","E","F"}

DigitVal(c) == (CHOOSE i \in 1..10 : DigitChars[i] = c) - 1

\* i64::to_string of a non-negative value.
RECURSIVE DecNat(_)
DecNat(n) ==
    IF n < 10 THEN <<DigitChars[n + 1]>>
    ELSE DecNat(n \div 10) \o <<DigitChars[(n % 10) + 1]>>

\* i64::to_string.
I64ToString(n) == IF n < 0 THEN <<"-">> \o DecNat(0 - n) ELSE DecNat(n)

\* The value of a string of decimal digits.
RECURSIVE DecValue(_)
DecValue(s) ==
    IF s = <<>> THEN 0
    ELSE 10 * DecValue(SubSeq(s, 1, Len(s) - 1)) + DigitVal(s[Len(s)])

\* s cut at every occurrence of sep.
RECURSIVE Split(_, _)
Split(s, sep) ==
    IF \A i \in 1..Len(s) : s[i] # sep THEN <<s>>
    ELSE LET i == CHOOSE k \in 1..Len(s) :
                      s[k] = sep /\ \A j \in 1..(k - 1) : s[j] # sep
         IN  <<SubSeq(s, 1, i - 1)>> \o Split(SubSeq(s, i + 1, Len(s)), sep)

-----------------------------------------------------------------------------
(* Ipv4Addr::from_str and Ipv6Addr::from_str, as used by FilterConfig::new *)

\* One decimal octet: 1 to 3 digits, no leading zero, at most 255.
IsOctet(p) ==
    /\ Len(p) \in 1..3
    /\ \A i \in 1..Len(p) : p[i] \in Digits
    /\ (Len(p) > 1 => p[1] # "0")
    /\ DecValue(p) <= 255

\* Ipv4Addr::from_str(ip).is_ok()
IsIpv4(ip) ==
    LET parts == Split(ip, ".")
    IN  Len(parts) = 4 /\ \A i \in 1..4 : IsOctet(parts[i])

\* One group of an IPv6 literal: 1 to 4 hexadecimal digits.
IsHexGroup(p) ==
    /\ Len(p) \in 1..4
    /\ \A i \in 1..Len(p) : p[i] \in HexDigits

\* Number of 16-bit groups a colon-separated run stands for, -1 when it is
\* not one. The last part may be an embedded IPv4 address (two groups) where
\* v4 allows it; the empty run stands for no group.
GroupCount(s, v4) ==
    IF s = <<>> THEN 0
    ELSE LET parts == Split(s, ":")
             n     == Len(parts)
             last  == parts[n]
         IN  IF \E i \in 1..(n - 1) : ~IsHexGroup(parts[i]) THEN -1
             ELSE IF IsHexGroup(last) THEN n
             ELSE IF v4 /\ IsIpv4(last) THEN n + 1
             ELSE -1

\* Ipv6Addr::from_str(ip).is_ok(): eight groups, or one "::" standing for at
\* least one group, with no IPv4 part before it.
IsIpv6(ip) ==
    \/ GroupCount(ip, TRUE) = 8
    \/ \E i \in 1..(Len(ip) - 1) :
          /\ ip[i] = ":" /\ ip[i + 1] = ":"
          /\ LET head == GroupCount(SubSeq(ip, 1, i - 1), FALSE)
                 tail == GroupCount(SubSeq(ip, i + 2, Len(ip)), TRUE)
             IN  head >= 0 /\ tail >= 0 /\ head + tail <= 7

-----------------------------------------------------------------------------
(* Configuration: RawFilterConfig and FilterConfig::new *)

\* The address literals configuration payloads are built from.
Literals == {Ip127_0_0_1, IpLoopback6, Ip192_168_1_1, InvalidIp}

\* Option<T>: Some(v), and None (carrying a placeholder of T's shape).
Some(v) == [some |-> TRUE, value |-> v]
None(placeholder) == [some |-> FALSE, value |-> placeholder]

\* A key the payload does not have.
Absent == None({})

\* A JSON array of address literals, or the key left out.
Fields ==
    {Absent} \cup
    {Some(S) : S \in {T \in SUBSET Literals : Cardinality(T) <= MaxEntries}}

\* A payload serde_json::from_str rejects.
Malformed ==
    [parses |-> FALSE, deny_addresses |-> Absent, allow_addresses |-> Absent]

Payloads ==
    {Malformed} \cup
    [parses : {TRUE}, deny_addresses : Fields, allow_addresses : Fields]

\* FilterConfig::new returned None.
NoConfig ==
    None([deny_addresses_exact |-> {}, allow_addresses_exact |-> {}])

\* The diagnostic names no literal.
NoIp == <<>>

\* #[serde(default)]: an absent key is the empty HashSet.
SerdeDefault(field) == IF field.some THEN field.value ELSE {}

\* serde_json::from_str::<RawFilterConfig>, for a payload that parses.
Deserialize(p) ==
    [deny_addresses  |-> SerdeDefault(p.deny_addresses),
     allow_addresses |-> SerdeDefault(p.allow_addresses)]

\* Faulty variant: only the both-empty case is refused ("at least one" for "exactly one").
ExclusivityViolated_BothEmptyOnly(fc) ==
    fc.deny_addresses = {} /\ fc.allow_addresses = {}

\* deny_addresses.is_empty() == allow_addresses.is_empty()
ExclusivityViolated(fc) ==
    (fc.deny_addresses = {}) = (fc.allow_addresses = {})

\* Ipv4Addr::from_str(ip).is_err() && Ipv6Addr::from_str(ip).is_err()
IsInvalidAddress(ip) == ~IsIpv4(ip) /\ ~IsIpv6(ip)

\* The entries on which a validation loop over addresses can return None.
BadEntries(addresses) == {ip \in addresses : IsInvalidAddress(ip)}

\* Faulty variant: an invalid entry is skipped (continue for return None).
RECURSIVE InsertAll_SkipInvalid(_, _)
InsertAll_SkipInvalid(todo, exact) ==
    IF todo = {} THEN Some(exact)
    ELSE LET ip == CHOOSE x \in todo : TRUE
         IN  IF IsInvalidAddress(ip)
             THEN InsertAll_SkipInvalid(todo \ {ip}, exact)
             ELSE InsertAll_SkipInvalid(todo \ {ip}, exact \cup {ip})

\* Faulty variant: entries are validated but never inserted.
InsertAll_NoInsert(todo, exact) ==
    IF \E ip \in todo : IsInvalidAddress(ip) THEN None({}) ELSE Some(exact)

\* One validation loop: every entry is checked and inserted into the exact
\* set; None as soon as an entry is invalid.
RECURSIVE InsertAll(_, _)
InsertAll(todo, exact) ==
    IF todo = {} THEN Some(exact)
    ELSE LET ip == CHOOSE x \in todo : TRUE
         IN  IF IsInvalidAddress(ip) THEN None({})
             ELSE InsertAll(todo \ {ip}, exact \cup {ip})

Diag(kind, ip) == [kind |-> kind, ip |-> ip]

\* FilterConfig::new: the possible (returned value, diagnostic) pairs. The
\* HashSet iteration order decides which invalid literal is reported.
FilterConfigNew(p) ==
    IF ~p.parses
    THEN {[config |-> NoConfig, diag |-> Diag("parse", NoIp)]}
    ELSE LET fc    == Deserialize(p)
             allow == InsertAll(fc.allow_addresses, {})
             deny  == InsertAll(fc.deny_addresses, {})
         IN  IF ExclusivityViolated(fc)
             THEN {[config |-> NoConfig, diag |-> Diag("exclusivity", NoIp)]}
             ELSE IF ~allow.some
             THEN {[config |-> NoConfig, diag |-> Diag("allow_addresses", ip)] :
                      ip \in BadEntries(fc.allow_addresses)}
             ELSE IF ~deny.some
             THEN {[config |-> NoConfig, diag |-> Diag("deny_addresses", ip)] :
                      ip \in BadEntries(fc.deny_addresses)}
             ELSE {[config |-> Some([deny_addresses_exact  |-> deny.value,
                                     allow_addresses_exact |-> allow.value]),
                    diag   |-> Diag("none", NoIp)]}

-----------------------------------------------------------------------------
(* Requests: Filter::on_request_headers *)

NoFilter  == NoConfig     \* no Filter was created
NoAddress == None(<<>>)   \* get_attribute_string returned None
NoPort    == None(0)      \* get_attribute_int returned None
NoString  == None(<<>>)   \* downstream_addr_str was never compared
NoRequest == [addr |-> NoAddress, port |-> NoPort]

Forbidden == 403
NoAddressBody == "No remote address and request is forbidden."
ForbiddenBody == "Request is forbidden."

\* Source ports the host reports.
Ports == {80, 8080}
SourcePorts == {NoPort} \cup {Some(port) : port \in Ports}

WithPort(ip, port) == ip \o <<":">> \o I64ToString(port)

\* Source address strings the host reports: "<ip>:<port>" for every port,
\* bare addresses, a string not ending in ":<port>", and strings shorter
\* than a port suffix.
AddressStrings ==
    {WithPort(ip, port) :
        ip \in {Ip127_0_0_1, IpLoopback6, Ip192_168_1_1, Ip203_0_113_5},
        port \in Ports}
    \cup {Ip127_0_0_1, IpLoopback6, Ip127_0_0_1 \o <<"x","8","0">>,
          <<":","8","0">>, <<"1">>, <<>>}
SourceAddresses == {NoAddress} \cup {Some(a) : a \in AddressStrings}

GetAttributeString == [fn |-> "get_attribute_string", arg |-> "SourceAddress"]
GetAttributeInt    == [fn |-> "get_attribute_int", arg |-> "SourcePort"]
SendResponse(code, headers, body) ==
    [fn |-> "send_response",
     arg |-> [status_code |-> code, headers |-> headers, body |-> body]]

\* send_response(403, vec![], Some(b"No remote address and request is forbidden."))
NoAddressResponse == SendResponse(Forbidden, <<>>, NoAddressBody)

\* Faulty variant: the list rejection sends the body of the missing-address guard.
ForbiddenResponse_WrongBody == SendResponse(Forbidden, <<>>, NoAddressBody)

\* send_response(403, vec![], Some(b"Request is forbidden."))
ForbiddenResponse == SendResponse(Forbidden, <<>>, ForbiddenBody)

\* Faulty variant: the guard tests the port only.
MissingAttribute_PortOnly(addr, port) == ~port.some

\* Faulty variant: the guard tests the address only.
MissingAttribute_AddressOnly(addr, port) == ~addr.some

\* downstream_addr.is_none() || downstream_port.is_none()
MissingAttribute(addr, port) == ~addr.some \/ ~port.some

\* Faulty variant: the colon is not counted.
SliceEnd_NoColon(addr, port) ==
    Len(addr.value) - Len(I64ToString(port.value))

\* downstream_addr_slice.len() - downstream_port.unwrap().to_string().len() - 1
\* A negative value stands for the usize subtraction going below zero.
SliceEnd(addr, port) ==
    Len(addr.value) - Len(I64ToString(port.value)) - 1

\* The subtraction overflows (a panic in a checked build) or wraps to a range
\* end beyond the slice (a panic in the index): every build panics.
SlicePanics(addr, port) == SliceEnd(addr, port) < 0

\* &downstream_addr_slice[0..end], or the whole slice without a port.
StripPort(addr, port) ==
    IF ~port.some THEN addr.value
    ELSE SubSeq(addr.value, 1, SliceEnd(addr, port))

\* The allow-list check, with the set operations it performs.
AllowCheck(cfg, s) ==
    IF cfg.allow_addresses_exact # {}
    THEN [reject |-> s \notin cfg.allow_addresses_exact,
          ops    |-> <<"allow.is_empty", "allow.contains">>]
    ELSE [reject |-> FALSE, ops |-> <<"allow.is_empty">>]

\* The deny-list check, with the set operations it performs.
DenyCheck(cfg, s) ==
    IF cfg.deny_addresses_exact # {}
    THEN [reject |-> s \in cfg.deny_addresses_exact,
          ops    |-> <<"deny.is_empty", "deny.contains">>]
    ELSE [reject |-> FALSE, ops |-> <<"deny.is_empty">>]

Outcome(st, cs, str, ops) ==
    [status |-> st, calls |-> cs, downstream_addr_str |-> str,
     consulted |-> ops]

\* Filter::on_request_headers on a filter holding cfg.
Handle(cfg, addr, port) ==
    LET reads == <<GetAttributeString, GetAttributeInt>>
    IN  IF MissingAttribute(addr, port)
        THEN Outcome("StopIteration", reads \o <<NoAddressResponse>>,
                     NoString, <<>>)
        ELSE IF port.some /\ SlicePanics(addr, port)
        THEN Outcome("Panic", reads, NoString, <<>>)
        ELSE LET s     == StripPort(addr, port)
                 allow == AllowCheck(cfg, s)
                 deny  == DenyCheck(cfg, s)
                 send  == <<ForbiddenResponse>>
             IN  IF allow.reject
                 THEN Outcome("StopIteration", reads \o send, Some(s),
                              allow.ops)
                 ELSE IF deny.reject
                 THEN Outcome("StopIteration", reads \o send, Some(s),
                              allow.ops \o deny.ops)
                 ELSE Outcome("Continue", reads, Some(s),
                              allow.ops \o deny.ops)

-----------------------------------------------------------------------------
(* The state machine *)

Init ==
    /\ payload = Malformed
    /\ config = NoConfig
    /\ diag = Diag("parse", NoIp)
    /\ filter = NoFilter
    /\ request = NoRequest
    /\ status = "None"
    /\ calls = <<>>
    /\ downstream_addr_str = NoString
    /\ consulted = <<>>
    /\ decided = 0

Running == status # "Panic"

\* new_http_filter_config_fn -> FilterConfig::new(p): the host loads a
\* filter-chain configuration entry; the filters of the previous one are gone.
New(p) ==
    /\ Running
    /\ \E r \in FilterConfigNew(p) :
          /\ config' = r.config
          /\ diag' = r.diag
    /\ payload' = p
    /\ filter' = NoFilter
    /\ request' = NoRequest
    /\ status' = "None"
    /\ calls' = <<>>
    /\ downstream_addr_str' = NoString
    /\ consulted' = <<>>
    /\ decided' = 0

\* FilterConfig::new_http_filter: a Filter holding a clone of the config.
NewHttpFilter ==
    /\ Running
    /\ config.some
    /\ filter' = config
    /\ UNCHANGED <<payload, config, diag, request, status, calls,
                   downstream_addr_str, consulted, decided>>

\* Filter::on_request_headers for a request with the given source attributes.
OnRequestHeaders(addr, port) ==
    /\ Running
    /\ filter.some
    /\ decided < MaxRequests
    /\ LET r == Handle(filter.value, addr, port)
       IN  /\ status' = r.status
           /\ calls' = r.calls
           /\ downstream_addr_str' = r.downstream_addr_str
           /\ consulted' = r.consulted
    /\ request' = [addr |-> addr, port |-> port]
    /\ decided' = decided + 1
    /\ UNCHANGED <<payload, config, diag, filter>>

Next ==
    \/ \E p \in Payloads : New(p)
    \/ NewHttpFilter
    \/ \E addr \in SourceAddresses, port \in SourcePorts :
          OnRequestHeaders(addr, port)

Spec == Init /\ [][Next]_vars

-----------------------------------------------------------------------------
(* Vocabulary of the properties *)

\* The two address sets of the payload last given to FilterConfig::new.
RawDeny  == IF payload.deny_addresses.some
            THEN payload.deny_addresses.value ELSE {}
RawAllow == IF payload.allow_addresses.some
            THEN payload.allow_addresses.value ELSE {}

\* A literal that is a valid IPv4 or a valid IPv6 literal.
ValidLiteral(ip) == IsIpv4(ip) \/ IsIpv6(ip)

\* A request has been decided, with both / one / none of its attributes.
Decided      == decided >= 1
BothPresent  == Decided /\ request.addr.some /\ request.port.some
AllowTable   == filter.some /\ filter.value.allow_addresses_exact # {}
                            /\ filter.value.deny_addresses_exact = {}
DenyTable    == filter.some /\ filter.value.deny_addresses_exact # {}
                            /\ filter.value.allow_addresses_exact = {}

\* The source address with its port suffix stripped: the last
\* 1 + len(decimal port) characters removed.
Normalized ==
    SubSeq(request.addr.value, 1,
           Len(request.addr.value) - (1 + Len(I64ToString(request.port.value))))

\* The send_response calls of the last decision, and where they stand.
SendIndexes == {i \in 1..Len(calls) : calls[i].fn = "send_response"}
ReadIndexes(c) ==
    {i \in 1..Len(calls) : calls[i].fn = c.fn /\ calls[i].arg = c.arg}

-----------------------------------------------------------------------------
(* C1 *)

\* C1: for every payload that parses, if deny_addresses and allow_addresses
\* are both empty (absent included) or both non-empty, FilterConfig::new
\* returns no table and the failure is the exclusivity violation.
C1_ExclusivityFails ==
    (payload.parses /\ ((RawDeny = {}) = (RawAllow = {})))
        => (~config.some /\ diag.kind = "exclusivity")

C1_Witness ==
    /\ payload.parses
    /\ RawDeny # {} /\ RawAllow # {}
    /\ \A ip \in RawDeny \cup RawAllow : ValidLiteral(ip)
    /\ ~config.some /\ diag.kind = "exclusivity"

-----------------------------------------------------------------------------
(* C2 *)

\* C2 as stated: for every payload that parses and holds at least one literal,
\* in either set, that is neither valid IPv4 nor valid IPv6,
\* FilterConfig::new fails and the failure kind is InvalidAddress, whatever
\* the other entries of the two sets are.
C2_InvalidAddressAlways ==
    (payload.parses /\ \E ip \in RawDeny \cup RawAllow : ~ValidLiteral(ip))
        => (~config.some /\ diag.kind \in {"allow_addresses", "deny_addresses"})

\* C2 amended: such a payload never yields a table; the failure is
\* InvalidAddress, naming an invalid literal of the non-empty set, when
\* exactly one set is non-empty, and the exclusivity violation when both
\* sets are non-empty.
C2_InvalidNeverLoads ==
    (payload.parses /\ \E ip \in RawDeny \cup RawAllow : ~ValidLiteral(ip))
        => /\ ~config.some
           /\ (RawDeny = {} =>
                 /\ diag.kind = "allow_addresses"
                 /\ diag.ip \in RawAllow /\ ~ValidLiteral(diag.ip))
           /\ (RawAllow = {} =>
                 /\ diag.kind = "deny_addresses"
                 /\ diag.ip \in RawDeny /\ ~ValidLiteral(diag.ip))
           /\ ((RawDeny # {} /\ RawAllow # {}) => diag.kind = "exclusivity")

C2_Witness ==
    /\ payload.parses
    /\ RawDeny = {}
    /\ \E ip \in RawAllow : ValidLiteral(ip)
    /\ \E ip \in RawAllow : ~ValidLiteral(ip)
    /\ ~config.some /\ diag.kind = "allow_addresses"

-----------------------------------------------------------------------------
(* C3 *)

\* C3: for every payload with exactly one non-empty set whose literals are
\* all valid, FilterConfig::new succeeds and both sets of the table equal the
\* input sets verbatim; every table that exists, and every table a filter
\* holds, has exactly one non-empty set, also after requests were decided.
C3_VerbatimTable ==
    /\ (/\ payload.parses
        /\ (RawDeny = {}) # (RawAllow = {})
        /\ \A ip \in RawDeny \cup RawAllow : ValidLiteral(ip))
          => /\ config.some
             /\ config.value.deny_addresses_exact = RawDeny
             /\ config.value.allow_addresses_exact = RawAllow
    /\ config.some =>
          (config.value.deny_addresses_exact = {})
              # (config.value.allow_addresses_exact = {})
    /\ filter.some => filter = config

C3_Witness ==
    /\ config.some
    /\ filter = config
    /\ Cardinality(config.value.allow_addresses_exact) = 2
    /\ config.value.allow_addresses_exact = RawAllow
    /\ decided >= 2

-----------------------------------------------------------------------------
(* C4 *)

\* C4: for every allow-list table and every request whose source address and
\* source port are both present, on_request_headers returns Continue if and
\* only if the normalized address is a member of the allow set, and
\* StopIteration otherwise, whatever was decided earlier on the table.
C4_AllowListDecision ==
    (AllowTable /\ BothPresent)
        => status = (IF Normalized \in filter.value.allow_addresses_exact
                     THEN "Continue" ELSE "StopIteration")

\* C4, outside the panic of the port-stripping slice: the allow-list decision
\* is the stated one whenever on_request_headers returns.
C4_AllowListDecisionWhenReturning ==
    (AllowTable /\ BothPresent /\ status # "Panic")
        => status = (IF Normalized \in filter.value.allow_addresses_exact
                     THEN "Continue" ELSE "StopIteration")

-----------------------------------------------------------------------------
(* C5 *)

\* C5: for every deny-list table and every request whose source address and
\* source port are both present, on_request_headers returns StopIteration if
\* and only if the normalized address is a member of the deny set, and
\* Continue otherwise, whatever was decided earlier on the table.
C5_DenyListDecision ==
    (DenyTable /\ BothPresent)
        => status = (IF Normalized \in filter.value.deny_addresses_exact
                     THEN "StopIteration" ELSE "Continue")

\* C5, outside the panic of the port-stripping slice: the deny-list decision
\* is the stated one whenever on_request_headers returns.
C5_DenyListDecisionWhenReturning ==
    (DenyTable /\ BothPresent /\ status # "Panic")
        => status = (IF Normalized \in filter.value.deny_addresses_exact
                     THEN "StopIteration" ELSE "Continue")

-----------------------------------------------------------------------------
(* C6 *)

\* C6: for every table and every source port value, present or absent, a
\* request whose source address is absent is rejected: StopIteration, one
\* response 403 with the body "No remote address and request is forbidden.",
\* and neither set is consulted.
C6_MissingAddressRejected ==
    (Decided /\ ~request.addr.some)
        => /\ status = "StopIteration"
           /\ Cardinality(SendIndexes) = 1
           /\ \A i \in SendIndexes :
                 calls[i].arg = [status_code |-> 403, headers |-> <<>>,
                                 body |-> "No remote address and request is forbidden."]
           /\ consulted = <<>>

C6_Witness ==
    /\ Decided
    /\ ~request.addr.some /\ request.port.some
    /\ status = "StopIteration"
    /\ consulted = <<>>

-----------------------------------------------------------------------------
(* C7 *)

\* C7: for every table and every request input, a source address of any
\* length and any source port, on_request_headers completes and returns
\* Continue or StopIteration; no input reaches a panic.
C7_NoPanic ==
    Decided => status \in {"Continue", "StopIteration"}

\* C7, the inputs that panic: exactly the requests with both attributes
\* present whose address is shorter than 1 + len(decimal port).
C7_PanicOnlyOnShortAddress ==
    Decided =>
        (status = "Panic" <=>
            /\ request.addr.some /\ request.port.some
            /\ Len(request.addr.value)
                  < 1 + Len(I64ToString(request.port.value)))

-----------------------------------------------------------------------------
(* C8 *)

\* C8: in every request decision send_response is called exactly once when
\* the outcome is StopIteration and never when it is Continue; the call has
\* status 403, no headers, and the body "No remote address and request is
\* forbidden." for the missing-address guard and "Request is forbidden." for
\* a list rejection; both source attributes are read exactly once, before
\* any response is sent.
C8_ResponseProtocol ==
    Decided =>
        /\ status = "StopIteration" => Cardinality(SendIndexes) = 1
        /\ status = "Continue" => SendIndexes = {}
        /\ \A i \in SendIndexes :
              /\ calls[i].arg.status_code = 403
              /\ calls[i].arg.headers = <<>>
              /\ calls[i].arg.body =
                    (IF downstream_addr_str.some
                     THEN "Request is forbidden."
                     ELSE "No remote address and request is forbidden.")
        /\ Cardinality(ReadIndexes(GetAttributeString)) = 1
        /\ Cardinality(ReadIndexes(GetAttributeInt)) = 1
        /\ \A i \in SendIndexes :
              \A j \in ReadIndexes(GetAttributeString)
                           \cup ReadIndexes(GetAttributeInt) : j < i

C8_Witness ==
    /\ Decided
    /\ status = "StopIteration"
    /\ downstream_addr_str.some
    /\ \E i \in SendIndexes : calls[i].arg.body = "Request is forbidden."

-----------------------------------------------------------------------------
(* C9 *)

\* C9: when the source address and the source port are both present, the
\* address compared against the sets is the source address with exactly its
\* last 1 + len(decimal port) characters removed, by count and whatever they
\* are: "203.0.113.5:8080" with port 8080 gives "203.0.113.5", "::1:80" with
\* port 80 gives "::1".
C9_CountBasedStrip ==
    /\ (BothPresent /\ downstream_addr_str.some)
          => /\ downstream_addr_str.value = Normalized
             /\ Len(downstream_addr_str.value)
                    + 1 + Len(I64ToString(request.port.value))
                  = Len(request.addr.value)
             /\ \A i \in 1..Len(downstream_addr_str.value) :
                   downstream_addr_str.value[i] = request.addr.value[i]
    /\ (Decided /\ request = [addr |-> Some(WithPort(Ip203_0_113_5, 8080)),
                              port |-> Some(8080)])
          => downstream_addr_str = Some(Ip203_0_113_5)
    /\ (Decided /\ request = [addr |-> Some(<<":",":","1",":","8","0">>),
                              port |-> Some(80)])
          => downstream_addr_str = Some(<<":",":","1">>)

\* The suffix removed is not ":<port>": "127.0.0.1x80" with port 80.
C9_Witness ==
    /\ BothPresent
    /\ request.port.value = 80
    /\ request.addr.value = Ip127_0_0_1 \o <<"x","8","0">>
    /\ downstream_addr_str = Some(Ip127_0_0_1)
    /\ status = "Continue"
    /\ AllowTable

-----------------------------------------------------------------------------
(* C10 *)

\* C10 as stated: a request whose source address is present but whose source
\* port is absent is not rejected by the missing-address guard: the decision
\* proceeds with the whole address string as the normalized address and the
\* outcome is the one the allow-list / deny-list checks give for it.
C10_PortlessFallsThrough ==
    (Decided /\ request.addr.some /\ ~request.port.some)
        => /\ downstream_addr_str = Some(request.addr.value)
           /\ AllowTable =>
                 status = (IF request.addr.value
                                 \in filter.value.allow_addresses_exact
                           THEN "Continue" ELSE "StopIteration")
           /\ DenyTable =>
                 status = (IF request.addr.value
                                 \in filter.value.deny_addresses_exact
                           THEN "StopIteration" ELSE "Continue")

\* C10 amended: a request whose source address is present but whose source
\* port is absent is rejected by the missing-address guard: StopIteration,
\* one response 403 with the body "No remote address and request is
\* forbidden.", no address is compared and neither set is consulted.
C10_PortlessRejected ==
    (Decided /\ request.addr.some /\ ~request.port.some)
        => /\ status = "StopIteration"
           /\ Cardinality(SendIndexes) = 1
           /\ \A i \in SendIndexes :
                 calls[i].arg = [status_code |-> 403, headers |-> <<>>,
                                 body |-> "No remote address and request is forbidden."]
           /\ ~downstream_addr_str.some
           /\ consulted = <<>>

\* The bare address is a member of the allow set, and is rejected all the same.
C10_Witness ==
    /\ Decided
    /\ request.addr.some /\ ~request.port.some
    /\ AllowTable
    /\ request.addr.value \in filter.value.allow_addresses_exact
    /\ status = "StopIteration"

====
